---- MODULE Spec2Model ----
(***************************************************************************)
(* Model of the vlmx-sh2 interpretation pipeline: composition (word order) *)
(* validation, command registration and matching, command ranking, parsing *)
(* of recognized words, execution of a parsed command, and the navigation  *)
(* Context with its level-consistency validator.                           *)
(***************************************************************************)
EXTENDS Integers, Sequences, FiniteSets, TLC

\* ------------------------------------------------------------------ state
VARIABLES
    words,        \* the word sequence last handed to the validator
    validation,   \* what validate_command_structure returned for it
    appended,     \* Attribute words appended since the sequence was chosen
    sort_input,   \* the word list last handed to sort_words_by_type
    sorted_words, \* the list it returned
    ctx_args,     \* keyword arguments of the last Context(...) call
    ctx_error,    \* the validation error that call raised, "none" if none
    context,      \* the last Context instance constructed successfully
    commands,     \* CommandRegistry._commands, in insertion order
    reg_args,     \* arguments of the register_command(...) decoration at hand
    reg_error,    \* the validation errors that decoration raised
    registrations,\* register_command decorations applied after import
    commands_by_action, \* CommandRegistry._commands_by_action
    tokens,       \* what the tokenizer and the recognizer made of the input
    result,       \* the ParseResult under construction / returned
    parse_pc,     \* "ready", "returned" after parse, "executed" after execution
    exec_context, \* the Context handed to execute_parsed_command
    handler_invoked, \* the action handler has been awaited
    exec_outcome, \* how execute_parsed_command ended
    companies,    \* storage: the names whose company folder exists
    session_context, \* ui/app.py self.context once the command is handled
    submitted,    \* inputs submitted to the session so far
    word_registry, \* get_all_words() as the WordRecognizer was built on it
    fuzzy_threshold, \* WordRecognizer.fuzzy_threshold
    token_text,   \* the token text handed to recognize_word
    fuzzy_scores, \* what the scorer gave each word id for that text
    recognition,  \* what recognize_word returned
    WORDS,        \* the word list a word module declares
    WORD_REGISTRY, \* the registry built from it, "unbuilt" before
    command,      \* the Command whose validate_words is called
    checked_ids,  \* the word ids handed to it
    verdict,      \* the (is_valid, error_message) it returned
    input_text,   \* the input text handed to Tokenizer.tokenize, split
    tokenized     \* the token list it returned

compVars == <<words, validation, appended, sort_input, sorted_words>>

ctxVars == <<ctx_args, ctx_error, context>>

regVars == <<commands, reg_args, reg_error, registrations, commands_by_action>>

parseVars == <<tokens, result, parse_pc>>

execVars == <<exec_context, handler_invoked, exec_outcome, companies, session_context,
             submitted>>

recVars == <<word_registry, fuzzy_threshold, token_text, fuzzy_scores, recognition,
            WORDS, WORD_REGISTRY>>

cmdVars == <<command, checked_ids, verdict>>

tokVars == <<input_text, tokenized>>

vars == <<compVars, ctxVars, regVars, parseVars, execVars, recVars, cmdVars, tokVars>>

\* ------------------------------------------------------------------ bounds
\* Longest word sequence handed to the composition validator.
MaxWords == 4

\* Largest required or optional word set of a command definition tried.
MaxSetSize == 2

\* register_command decorations applied after the module's own two.
MaxRegistrations == 2

\* Longest token sequence parsed.
MaxTokens == 3

\* Longest token sequence handed to value extraction alone.
MaxExtractTokens == 4

\* Most words in a registry a WordRecognizer is built on.
MaxRegistryWords == 3

\* Longest word list a registry is built from.
MaxWordList == 3

\* Longest word id list handed to Command.validate_words.
MaxWordIds == 3

\* Most raw tokens in a tokenized input text.
MaxRawTokens == 3

\* Most inputs submitted in one session.
MaxCommands == 3

\* ------------------------------------------------------------ vocabulary
\* words.py WORDS, plus one ModifierWord (the class exists, the examples of
\* syntax.py use "holding") so that every word type of the Word union occurs.
WordIds == {"create", "delete", "holding", "company", "entity", "currency"}

\* Python's None.
None == "None"

\* words.py WORDS, the registry of commands.py and of the module parser.py.
\* dsl/words.py WORDS, the registry of the parser package, is DslWordIds.
RegisteredWordIds == {"create", "delete", "company", "entity", "currency"}

\* get_word(word_id) is not None
WordExists(id) == id \in RegisteredWordIds

\* The dsl/words.py words the package parser is exercised with.
DslWordIds == {"create", "add", "cd", "company", "name"}

\* word.word_type for the words of both registries (the ids they share have
\* the same type in both); dsl/words.py calls the attribute type FIELD.
word_type(id) ==
    CASE id \in {"create", "delete", "add", "cd"} -> "action"
      [] id = "holding"                           -> "modifier"
      [] id = "company"                           -> "entity"
      [] id \in {"entity", "currency", "name"}     -> "attribute"
      [] OTHER                                    -> "filter"

\* WordOrder class attributes.
WordOrder_ACTION == 1
WordOrder_MODIFIER == 2
WordOrder_ENTITY == 3
WordOrder_ATTRIBUTE == 4

\* WordOrder.get_order: mapping.get(word_type, 999).
get_order(t) ==
    CASE t = "action"    -> WordOrder_ACTION
      [] t = "modifier"  -> WordOrder_MODIFIER
      [] t = "entity"    -> WordOrder_ENTITY
      [] t = "attribute" -> WordOrder_ATTRIBUTE
      [] OTHER           -> 999

\* A list comprehension with a condition: the elements of sq from index i on
\* whose keep flag is set, in order.
RECURSIVE SelectSeqBy(_, _, _)
SelectSeqBy(sq, keep, i) ==
    IF i > Len(sq)
    THEN << >>
    ELSE IF keep[i]
         THEN <<sq[i]>> \o SelectSeqBy(sq, keep, i + 1)
         ELSE SelectSeqBy(sq, keep, i + 1)

\* ------------------------------------------------- composition validation
\* A validation outcome: (is_valid, error_message).  The message is kept as
\* its kind and the word id it names ("" when it names none).
ValidationOk == [ok |-> TRUE, err |-> "", word |-> ""]

ValidationError(kind, id) == [ok |-> FALSE, err |-> kind, word |-> id]

\* any(w.word_type != ATTRIBUTE for w in words)
has_non_attributes(ws) ==
    \E i \in 1..Len(ws) : word_type(ws[i]) # "attribute"

\* The attribute branch of the loop body: TRUE when the loop continues.
MutAttributeContinues(ws, last_order) ==
    last_order > 0 /\ last_order < WordOrder_ENTITY

AttributeContinues(ws, last_order) ==
    IF last_order > 0 /\ last_order < WordOrder_ATTRIBUTE
    THEN TRUE
    ELSE ~(last_order = 0 /\ has_non_attributes(ws))

\* The for loop of validate_command_structure from index i on.
RECURSIVE ValidateLoop(_, _, _)
ValidateLoop(ws, i, last_order) ==
    IF i > Len(ws)
    THEN ValidationOk
    ELSE LET word == ws[i]
             current_order == get_order(word_type(word))
         IN  IF current_order = 999
             THEN ValidationError("unknown_type", "")
             ELSE IF word_type(word) = "attribute"
             THEN IF AttributeContinues(ws, last_order)
                  THEN ValidateLoop(ws, i + 1, last_order)
                  ELSE ValidationError("attribute_first", word)
             ELSE IF current_order < last_order
             THEN ValidationError("word_order", word)
             ELSE ValidateLoop(ws, i + 1, current_order)

MutValidateCommandStructure(ws) ==
    IF Len(ws) <= 1 THEN ValidationOk ELSE ValidateLoop(ws, 1, 0)

validate_command_structure(ws) ==
    IF ws = << >>
    THEN ValidationError("empty", "")
    ELSE ValidateLoop(ws, 1, 0)

is_valid_command(ws) == validate_command_structure(ws).ok

\* [w for w in words if w.word_type == t]
MutWordsOfType(ws, t) ==
    LET kept == SelectSeqBy(ws, [i \in 1..Len(ws) |-> word_type(ws[i]) = t], 1)
    IN  [i \in 1..Len(kept) |-> kept[Len(kept) + 1 - i]]

words_of_type(ws, t) ==
    SelectSeqBy(ws, [i \in 1..Len(ws) |-> word_type(ws[i]) = t], 1)

\* SyntaxRules.sort_words_by_type: actions + modifiers + entities + attributes
MutSortWordsByType(ws) == ws

sort_words_by_type(ws) ==
    words_of_type(ws, "action") \o words_of_type(ws, "modifier")
    \o words_of_type(ws, "entity") \o words_of_type(ws, "attribute")

\* get_composition_error: the message when invalid, None (here "none") when
\* valid.
\* SyntaxRules.get_expected_next_word_types: max_order is the highest order
\* among the words that are not attributes, 0 when there is none.
max_order(ws) ==
    LET orders == {get_order(word_type(ws[i])) :
                      i \in {k \in 1..Len(ws) : word_type(ws[k]) # "attribute"}}
    IN  IF orders = {} THEN 0 ELSE CHOOSE o \in orders : \A x \in orders : x <= o

get_expected_next_word_types(current_words) ==
    IF current_words = << >>
    THEN <<"action", "modifier", "entity", "attribute">>
    ELSE <<"attribute">>
            \o (IF max_order(current_words) < WordOrder_ACTION THEN <<"action">> ELSE << >>)
            \o (IF max_order(current_words) < WordOrder_MODIFIER THEN <<"modifier">> ELSE << >>)
            \o (IF max_order(current_words) < WordOrder_ENTITY THEN <<"entity">> ELSE << >>)

NoError == [err |-> "none", word |-> ""]

get_composition_error(ws) ==
    LET r == validate_command_structure(ws)
    IN  IF r.ok THEN NoError ELSE [err |-> r.err, word |-> r.word]



\* ------------------------------------------------------- command registry
\* commands.py.  A Command is kept as its id and its CommandWords.
CommandOf(id, req, opt) == [command_id |-> id, required |-> req, optional |-> opt]

\* validate_word_ids_exist: the ids of v that get_word does not resolve.
invalid_words(v) == {id \in v : ~WordExists(id)}

\* validate_no_overlap: v & required_words, checked only when required_words
\* validated (it is in info.data) and optional_words passed the id check.
MutOverlap(req, opt) == {}

Overlap(req, opt) ==
    IF invalid_words(req) = {} /\ invalid_words(opt) = {}
    THEN opt \cap req
    ELSE {}

\* CommandWords(required_words=..., optional_words=...): the kinds of error
\* pydantic collects; empty when the instance is built.
MutCommandWordsErrors(req, opt) ==
    IF Overlap(req, opt) # {} THEN {"overlap"} ELSE {}

CommandWordsErrors(req, opt) ==
    (IF invalid_words(req) # {} THEN {"unknown_required"} ELSE {})
    \cup (IF invalid_words(opt) # {} THEN {"unknown_optional"} ELSE {})
    \cup (IF Overlap(req, opt) # {} THEN {"overlap"} ELSE {})

\* CommandWords.get_all_words
get_all_words(cmd) == cmd.required \cup cmd.optional

\* CommandRegistry.register: self._commands[command.command_id] = command.
\* A dict keeps the position of a key that is assigned again.
register(cmds, cmd) ==
    IF \E i \in 1..Len(cmds) : cmds[i].command_id = cmd.command_id
    THEN [i \in 1..Len(cmds) |->
             IF cmds[i].command_id = cmd.command_id THEN cmd ELSE cmds[i]]
    ELSE Append(cmds, cmd)

\* register_command(...)(handler): the registry afterwards.  A decoration
\* whose CommandWords raises registers nothing.
register_command(cmds, id, req, opt) ==
    IF CommandWordsErrors(req, opt) # {}
    THEN cmds
    ELSE register(cmds, CommandOf(id, req, opt))

\* The action words a command's word set holds.
ActionWordIds == {id \in RegisteredWordIds : word_type(id) = "action"}

action_words_of(cmd) ==
    {word_id \in get_all_words(cmd) :
        WordExists(word_id) /\ word_type(word_id) = "action"}

\* _commands_by_action before any registration; a missing key reads as [].
EmptyIndex == [a \in ActionWordIds |-> << >>]

\* CommandRegistry.register, the index part: the command is appended to the
\* list of each of its action words.
index_register(index, cmd) ==
    [a \in ActionWordIds |->
        IF a \in action_words_of(cmd) THEN Append(index[a], cmd) ELSE index[a]]

\* register_command(...)(handler): the index afterwards.
index_register_command(index, id, req, opt) ==
    IF CommandWordsErrors(req, opt) # {}
    THEN index
    ELSE index_register(index, CommandOf(id, req, opt))

\* CommandRegistry.get_commands_by_action
get_commands_by_action(index, action_word_id) ==
    IF action_word_id \in DOMAIN index THEN index[action_word_id] ELSE << >>

\* The two decorations commands.py applies when it is imported.
ImportedIndex ==
    index_register_command(
        index_register_command(EmptyIndex, "create_company",
                               {"create", "company"}, {"entity", "currency"}),
        "delete_company", {"delete", "company"}, {})

ImportedCommands ==
    register_command(
        register_command(<< >>, "create_company",
                         {"create", "company"}, {"entity", "currency"}),
        "delete_company", {"delete", "company"}, {})

\* issubset test of find_matching_commands.
MutAllowsAll(cmd, word_set) == word_set \subseteq cmd.required

AllowsAll(cmd, word_set) == word_set \subseteq get_all_words(cmd)

\* CommandRegistry.find_matching_commands
find_matching_commands(cmds, word_ids) ==
    LET word_set == {word_ids[i] : i \in 1..Len(word_ids)}
        word_objects ==
            SelectSeqBy(word_ids, [i \in 1..Len(word_ids) |-> WordExists(word_ids[i])], 1)
    IN  IF Len(word_objects) # Len(word_ids)
        THEN << >>
        ELSE IF ~is_valid_command(word_objects)
        THEN << >>
        ELSE SelectSeqBy(cmds, [i \in 1..Len(cmds) |-> AllowsAll(cmds[i], word_set)], 1)

\* ---------------------------------------------------------------- Context
\* core/context.py.  None is "None"; org_id is an Optional[int] written as a
\* numeral, org_name and app_id are Optional[str].
Levels == {0, 1, 2, 3}

OrgIds == {None, "0", "1"}

OrgNames == {None, "", "ACME"}

AppIds == {None, "", "plugin"}

ContextArgs == [level : Levels, org_id : OrgIds, org_name : OrgNames, app_id : AppIds]

\* Python truth value of an Optional[int] and of an Optional[str].
TruthyInt(v) == v \notin {None, "0"}

TruthyStr(v) == v \notin {None, ""}

\* _validate_level_range: v not in (0, 1, 2) raises.
LevelInRange(v) == v \in {0, 1, 2}

\* any((self.org_id, self.org_name, self.app_id))
Level0Violation(c) ==
    TruthyInt(c.org_id) \/ TruthyStr(c.org_name) \/ TruthyStr(c.app_id)

\* self.org_id is None or self.org_name is None
MutOrgMissing(c) == c.org_id = None

OrgMissing(c) == c.org_id = None \/ c.org_name = None

\* The object None is not the object False.
NoneIsFalse == FALSE

\* self.app_id is None is False and self.app_id is not None
\* (a chained comparison: app_id is None and None is False).
Level1AppViolation(c) ==
    ((c.app_id = None) /\ NoneIsFalse) /\ c.app_id # None

\* self.org_id is None or self.org_name is None or self.app_id is None
MutLevel2Missing(c) == OrgMissing(c)

Level2Missing(c) == OrgMissing(c) \/ c.app_id = None

\* _validate_level_consistency (mode="after"): the error it raises, or "none".
validate_level_consistency(c) ==
    IF c.level = 0
    THEN IF Level0Violation(c) THEN "level_consistency" ELSE "none"
    ELSE IF c.level = 1
    THEN IF OrgMissing(c)
         THEN "level_consistency"
         ELSE IF Level1AppViolation(c) THEN "level_consistency" ELSE "none"
    ELSE IF c.level = 2
    THEN IF Level2Missing(c) THEN "level_consistency" ELSE "none"
    ELSE "none"

\* Context(**args): the field validator of level runs first, the model
\* validator only when every field validated.
ContextError(c) ==
    IF ~LevelInRange(c.level)
    THEN "level_range"
    ELSE validate_level_consistency(c)

\* Context(): every field at its default.
DefaultContext == [level |-> 0, org_id |-> None, org_name |-> None, app_id |-> None]


\* ------------------------------------------------------ parser.py: tokens
\* A ParsedToken after WordRecognizer.process_tokens: text, token_type, the
\* id of the recognized word (None when there is none) and its suggestions.
WordToken(id) ==
    [text |-> id, token_type |-> "word", word |-> id, suggestions |-> << >>]

ValueToken(text) ==
    [text |-> text, token_type |-> "value", word |-> None, suggestions |-> << >>]

UnknownToken(text, suggestions) ==
    [text |-> text, token_type |-> "unknown", word |-> None, suggestions |-> suggestions]

\* The tokens the inputs are made of: registry words typed by their id, a
\* value that looks like an entity name, and a lowercase typo the scorer
\* rates below the threshold but high enough to suggest "company".
TokenAlphabet ==
    {WordToken(id) : id \in {"create", "delete", "company", "currency"}}
    \cup {ValueToken("ACME"), UnknownToken("cmpny", <<"company">>)}

\* A token typed as an alias of a word: its text is what was typed.
AliasToken(text, id) ==
    [text |-> text, token_type |-> "word", word |-> id, suggestions |-> << >>]

\* The tokens value extraction is exercised with: words by id and by alias,
\* two values that look like entity names and one that does not, and an
\* unrecognized key.
ExtractAlphabet ==
    {WordToken("create"), WordToken("company"), WordToken("currency"),
     AliasToken("curr", "currency"),
     ValueToken("ACME"), ValueToken("BETA"), ValueToken("EUR"),
     UnknownToken("foo", << >>)}

\* ValueExtractor._looks_like_entity_name, for the value texts in use.
looks_like_entity_name(text) == text \in {"ACME", "BETA"}

\* A dict as a set of <<key, value>> pairs; d[k] = v replaces the pair of k.
MutDictPut(d, k, v) ==
    IF \E kv \in d : kv[1] = k THEN d ELSE d \cup {<<k, v>>}

DictPut(d, k, v) == {kv \in d : kv[1] # k} \cup {<<k, v>>}

\* The two conditions of the loop body of extract_attribute_values.
attribute_word_then_value(current_token, next_token) ==
    /\ current_token.token_type = "word"
    /\ current_token.word # None
    /\ word_type(current_token.word) = "attribute"
    /\ next_token.token_type = "value"

MutUnknownThenValue(current_token, next_token) == FALSE

unknown_then_value(current_token, next_token) ==
    /\ current_token.token_type = "unknown"
    /\ next_token.token_type = "value"

\* ValueExtractor.extract_attribute_values: the loop from index i on.
RECURSIVE extract_attribute_loop(_, _, _)
extract_attribute_loop(toks, i, attributes) ==
    IF i > Len(toks) - 1
    THEN attributes
    ELSE LET current_token == toks[i]
             next_token == toks[i + 1]
         IN  IF attribute_word_then_value(current_token, next_token)
             THEN extract_attribute_loop(toks, i + 1,
                      DictPut(attributes, current_token.text, next_token.text))
             ELSE IF unknown_then_value(current_token, next_token)
             THEN extract_attribute_loop(toks, i + 1,
                      DictPut(attributes, current_token.text, next_token.text))
             ELSE extract_attribute_loop(toks, i + 1, attributes)

extract_attribute_values(toks) == extract_attribute_loop(toks, 1, {})

\* 'company_name', 'milestone_name', else f'{entity_type}_name'.
EntityKey(id) ==
    CASE id = "company"   -> "company_name"
      [] id = "milestone" -> "milestone_name"
      [] OTHER            -> id \o "_name"

\* ValueExtractor.extract_entity_values: the first loop from index i on.
RECURSIVE extract_entity_loop(_, _, _)
extract_entity_loop(toks, i, entity_values) ==
    IF i > Len(toks) - 1
    THEN entity_values
    ELSE LET current_token == toks[i]
             next_token == toks[i + 1]
         IN  IF /\ current_token.token_type = "word"
                /\ current_token.word # None
                /\ word_type(current_token.word) = "entity"
                /\ next_token.token_type = "value"
             THEN extract_entity_loop(toks, i + 1,
                      DictPut(entity_values, EntityKey(current_token.word), next_token.text))
             ELSE extract_entity_loop(toks, i + 1, entity_values)

\* The fallback of extract_entity_values: the first standalone value that
\* looks like an entity name.
entity_candidates(toks) ==
    SelectSeqBy(toks,
        [i \in 1..Len(toks) |->
            toks[i].token_type = "value" /\ looks_like_entity_name(toks[i].text)], 1)

extract_entity_values(toks) ==
    LET entity_values == extract_entity_loop(toks, 1, {})
    IN  IF entity_values # {}
        THEN entity_values
        ELSE IF entity_candidates(toks) # << >>
        THEN {<<"company_name", entity_candidates(toks)[1].text>>}
        ELSE {}

\* Step 4 of parse: the words of the tokens that carry one.
recognized_of(toks) ==
    LET kept == SelectSeqBy(toks, [i \in 1..Len(toks) |-> toks[i].word # None], 1)
    IN  [i \in 1..Len(kept) |-> kept[i].word]

\* ------------------------------------------ commands.py: validate_words
\* (is_valid, error_message): the message is its fixed prefix followed by
\* ', '.join(listed), or the composition error's text.
Verdict(ok, message, listed, error) ==
    [ok |-> ok, message |-> message, listed |-> listed, error |-> error]

NoVerdict == Verdict(FALSE, "not called", {}, NoError)

\* self.syntax.required_words - word_set
MutMissingRequired(cmd, word_set) == {}

missing_required(cmd, word_set) == cmd.required \ word_set

\* Command.validate_words
validate_words(cmd, ids) ==
    LET word_set == {ids[i] : i \in 1..Len(ids)}
        unknown_words == word_set \ get_all_words(cmd)
        unresolved == {i \in 1..Len(ids) : ~WordExists(ids[i])}
        composition_error == get_composition_error(ids)
    IN  IF missing_required(cmd, word_set) # {}
        THEN Verdict(FALSE, "Missing required words: ",
                     missing_required(cmd, word_set), NoError)
        ELSE IF unknown_words # {}
        THEN Verdict(FALSE, "Unknown words for this command: ", unknown_words, NoError)
        ELSE IF unresolved # {}
        THEN Verdict(FALSE, "Unknown word ID: ",
                     {ids[CHOOSE i \in unresolved : \A j \in unresolved : i <= j]},
                     NoError)
        ELSE IF composition_error # NoError
        THEN Verdict(FALSE, "", {}, composition_error)
        ELSE Verdict(TRUE, "", {}, NoError)

\* ------------------------------------------ parser/tokenizer.py: Tokenizer
\* A string is the sequence of its characters; an input text is the sequence
\* of the raw tokens text.split() yields.
Str1(a) == <<a>>
Str2(a, b) == <<a, b>>

\* token.find(sub) >= 0, and the index of the first occurrence.
Occurrences(token, sub) ==
    {i \in 1..(Len(token) - Len(sub) + 1) : SubSeq(token, i, i + Len(sub) - 1) = sub}

Contains(token, sub) == Occurrences(token, sub) # {}

\* operators of _contains_operator, as a set (any(...) ignores the order).
ContainsOperators ==
    {Str1("="), Str1(">"), Str1("<"), Str2(">", "="), Str2("<", "="), Str2("!", "=")}

contains_operator(token) == \E op \in ContainsOperators : Contains(token, op)

\* operators of _parse_attribute_token, in its order.
ParseOperators ==
    <<Str2(">", "="), Str2("<", "="), Str2("!", "="), Str1("="), Str1(">"), Str1("<")>>

\* str.strip('"\''): leading and trailing quote characters removed.
QuoteChars == {"\"", "'"}

strip_quotes(str) ==
    LET kept == {i \in 1..Len(str) : str[i] \notin QuoteChars}
    IN  IF kept = {}
        THEN << >>
        ELSE SubSeq(str, CHOOSE i \in kept : \A j \in kept : i <= j,
                         CHOOSE i \in kept : \A j \in kept : j <= i)

\* Tokenizer._parse_attribute_token: (key, operator, value).
parse_attribute_token(token) ==
    LET found == {k \in 1..Len(ParseOperators) : Contains(token, ParseOperators[k])}
    IN  IF found = {}
        THEN [key |-> token, operator |-> << >>, value |-> << >>]
        ELSE LET operator == ParseOperators[CHOOSE k \in found : \A l \in found : k <= l]
                 at == CHOOSE i \in Occurrences(token, operator) :
                           \A j \in Occurrences(token, operator) : i <= j
             IN  [key |-> SubSeq(token, 1, at - 1),
                  operator |-> operator,
                  value |-> strip_quotes(SubSeq(token, at + Len(operator), Len(token)))]

\* ParsedToken(text=..., position=..., token_type=..., confidence=0.0)
ParsedToken(str, position, token_type) ==
    [text |-> str, position |-> position, token_type |-> token_type]

\* The tokens appended for a raw token that holds an operator.
MutAttributeTokens(key, operator, value, position) ==
    IF key # << >> /\ value # << >>
    THEN <<ParsedToken(key, position, "unknown"),
           ParsedToken(value, position + Len(key) + Len(operator), "value")>>
    ELSE << >>

attribute_tokens(key, operator, value, position) ==
    (IF key # << >> THEN <<ParsedToken(key, position, "unknown")>> ELSE << >>)
        \o (IF value # << >>
            THEN <<ParsedToken(value, position + Len(key) + Len(operator), "value")>>
            ELSE << >>)

\* raw_token[2:] when the raw token starts with "--".
clean_token(raw_token) ==
    IF Len(raw_token) >= 2 /\ raw_token[1] = "-" /\ raw_token[2] = "-"
    THEN SubSeq(raw_token, 3, Len(raw_token))
    ELSE raw_token

\* One turn of the loop of tokenize: the tokens the raw token adds.
tokens_of(raw_token, position) ==
    LET clean == clean_token(raw_token)
        parsed == parse_attribute_token(clean)
    IN  IF contains_operator(clean)
        THEN attribute_tokens(parsed.key, parsed.operator, parsed.value, position)
        ELSE <<ParsedToken(clean, position, "unknown")>>

\* Tokenizer.tokenize: the loop from raw token i on.
RECURSIVE tokenize_from(_, _, _)
tokenize_from(raws, i, position) ==
    IF i > Len(raws)
    THEN << >>
    ELSE tokens_of(raws[i], position)
            \o tokenize_from(raws, i + 1, position + Len(raws[i]) + 1)

NotTokenized == [returned |-> FALSE, tokens |-> << >>]

tokenize(raws) == [returned |-> TRUE, tokens |-> tokenize_from(raws, 1, 0)]

\* --------------------------------------------- parser.py: WordRecognizer
\* Word definitions as dsl/words.py lists them: id and aliases.
WordDef(id, aliases) == [id |-> id, aliases |-> aliases]

WordPool ==
    {WordDef("create", {"initialize", "init", "new", "c"}),
     WordDef("add", {"set", "assign", "a"}),
     WordDef("cd", {"navigate", "goto", "change", "nav"}),
     WordDef("update", {"modify", "change", "u"}),
     WordDef("unit", {"u"})}

\* WordRecognizer(fuzzy_threshold: float = 80.0)
DefaultFuzzyThreshold == 80

FuzzyThresholds == {DefaultFuzzyThreshold, 90}

\* Scores the similarity scorer may give (0..100).
ScoreValues == {50, 56, 62, 85, 95}

\* The token texts recognition is exercised with.
TokenTexts == {"change", "CHANGE", "u", "new", "cd", "chnge"}

\* str.lower() on those texts.
Lower(text) == IF text = "CHANGE" THEN "change" ELSE text

\* list(self.word_registry.keys())
word_list(registry) == [i \in 1..Len(registry) |-> registry[i].id]

\* The keys one word contributes to alias_to_word (all lower case already).
KeysOf(word) == {word.id} \cup word.aliases

\* WordRecognizer.__init__: alias_to_word after the first i words; each
\* word's assignments overwrite what earlier words stored under the key.
RECURSIVE build_alias_to_word(_, _)
build_alias_to_word(registry, i) ==
    IF i = 0
    THEN {}
    ELSE LET before == build_alias_to_word(registry, i - 1)
             word == registry[i]
         IN  {kv \in before : kv[1] \notin KeysOf(word)}
                 \cup {<<k, word.id>> : k \in KeysOf(word)}

alias_to_word(registry) == build_alias_to_word(registry, Len(registry))

\* process.extract(token, word_list, scorer, limit=5): (id, score) pairs by
\* decreasing score, equal scores in list order, at most five.
extract(ids, scores) ==
    LET rank(i) ==
            Cardinality({j \in 1..Len(ids) :
                \/ scores[ids[j]] > scores[ids[i]]
                \/ scores[ids[j]] = scores[ids[i]] /\ j < i}) + 1
        ordered ==
            [k \in 1..Len(ids) |->
                LET i == CHOOSE i \in 1..Len(ids) : rank(i) = k
                IN  <<ids[i], scores[ids[i]]>>]
    IN  IF Len(ordered) > 5 THEN SubSeq(ordered, 1, 5) ELSE ordered

\* matches[0][1] >= self.fuzzy_threshold
MutAcceptsBest(matches, threshold) == matches # << >>

accepts_best(matches, threshold) ==
    matches # << >> /\ matches[1][2] >= threshold

\* self.fuzzy_threshold * 0.7, in tenths of a point.
relaxed(threshold) == threshold * 7

\* recognize_word results: (word, confidence, suggestions).
Recognition(word, confidence, suggestions) ==
    [word |-> word, confidence |-> confidence, suggestions |-> suggestions]

NotRecognized == Recognition(None, 0, << >>)

\* The ids of matches[lo .. hi] scoring at least floor tenths, in order.
SuggestionsOf(matches, lo, hi, floor) ==
    LET top == IF Len(matches) < hi THEN Len(matches) ELSE hi
        slice == IF top < lo THEN << >> ELSE SubSeq(matches, lo, top)
        kept == SelectSeqBy(slice, [i \in 1..Len(slice) |-> slice[i][2] * 10 >= floor], 1)
    IN  [i \in 1..Len(kept) |-> kept[i][1]]

\* WordRecognizer.recognize_word
recognize_word(registry, threshold, text, scores) ==
    LET token_lower == Lower(text)
        exact == {kv \in alias_to_word(registry) : kv[1] = token_lower}
        matches == extract(word_list(registry), scores)
    IN  IF exact # {}
        THEN Recognition((CHOOSE kv \in exact : TRUE)[2], 100, << >>)
        ELSE IF accepts_best(matches, threshold)
        THEN Recognition(matches[1][1], matches[1][2],
                         SuggestionsOf(matches, 2, 4, relaxed(threshold)))
        ELSE Recognition(None, 0, SuggestionsOf(matches, 1, 3, 500))

\* recognize_word consulted the scorer: the text has no exact match.
exact_miss(registry, text) ==
    \A kv \in alias_to_word(registry) : kv[1] # Lower(text)

\* ------------------------------------------------ words.py: WORD_REGISTRY
\* The module has not been imported: no registry object exists.
Unbuilt == [built |-> FALSE, raised |-> FALSE, entries |-> << >>]

\* A dict as the sequence of its items in insertion order.
BuiltRegistry(entries) == [built |-> TRUE, raised |-> FALSE, entries |-> entries]

\* The import failed with an error: no registry object exists.
RegistrationError == [built |-> FALSE, raised |-> TRUE, entries |-> << >>]

\* Two declarations of one id, as the two word modules give them for create.
WordDeclarations ==
    WordPool \cup {WordDef("create", {"add", "new", "c"})}

\* {word.id: word for word in WORDS}: a key keeps the position of its first
\* assignment and the value of its last.
dict_comprehension(declared) ==
    LET first == SelectSeqBy([i \in 1..Len(declared) |-> i],
                     [i \in 1..Len(declared) |->
                         \A j \in 1..(i - 1) : declared[j].id # declared[i].id], 1)
        last(id) == CHOOSE i \in 1..Len(declared) :
                        /\ declared[i].id = id
                        /\ \A j \in (i + 1)..Len(declared) : declared[j].id # id
    IN  BuiltRegistry([k \in 1..Len(first) |-> declared[last(declared[first[k]].id)]])

\* ------------------------------------------------- parser.py: VLMXParser
\* Python's None where a Command is expected.
NoCommand == CommandOf(None, {}, {})

\* ParseResult(input_text=...) as constructed: every field at its default.
EmptyResult ==
    [tokens |-> << >>, recognized_words |-> << >>,
     attribute_values |-> {}, entity_values |-> {},
     is_valid |-> FALSE, errors |-> << >>, suggestions |-> << >>,
     matching_commands |-> << >>, best_command |-> NoCommand]

\* The fields of commands.py's Command; reading any other attribute of a
\* pydantic model raises AttributeError.
CommandFields == {"command_id", "description", "syntax", "handler", "examples"}

\* What a call returns or that it raised.
Returned(v) == [raised |-> FALSE, value |-> v]

Raised == [raised |-> TRUE, value |-> None]

\* score_command's tuple, were cmd.words readable.
score_tuple(cmd, word_ids, word_types) ==
    LET satisfied_required == Cardinality(cmd.required \cap word_ids)
        total_required == Cardinality(cmd.required)
        cmd_word_types ==
            {word_type(id) : id \in {w \in get_all_words(cmd) : WordExists(w)}}
        type_match == Cardinality(word_types \cap cmd_word_types)
    IN  <<satisfied_required, 0 - total_required, type_match>>

\* score_command(cmd): it reads cmd.words first.
score_command(cmd, word_ids, word_types) ==
    IF "words" \in CommandFields
    THEN Returned(score_tuple(cmd, word_ids, word_types))
    ELSE Raised

\* Python's tuple comparison a > b on triples.
TupleGreater(a, b) ==
    \/ a[1] > b[1]
    \/ (a[1] = b[1] /\ a[2] > b[2])
    \/ (a[1] = b[1] /\ a[2] = b[2] /\ a[3] > b[3])

\* sorted(commands, key=score_command, reverse=True)[0]: the sort is stable,
\* so the first command of the list with the greatest key.
sorted_first(cmds, word_ids, word_types) ==
    LET key(i) == score_command(cmds[i], word_ids, word_types)
    IN  IF \E i \in 1..Len(cmds) : key(i).raised
        THEN Raised
        ELSE LET best ==
                     CHOOSE i \in 1..Len(cmds) :
                         /\ \A j \in 1..Len(cmds) : ~TupleGreater(key(j).value, key(i).value)
                         /\ \A j \in 1..(i - 1) : TupleGreater(key(i).value, key(j).value)
             IN  Returned(cmds[best])

\* VLMXParser._select_best_command
select_best_command(cmds, recognized_words) ==
    IF cmds = << >>
    THEN Returned(NoCommand)
    ELSE IF Len(cmds) = 1
    THEN Returned(cmds[1])
    ELSE sorted_first(cmds,
             {recognized_words[i] : i \in 1..Len(recognized_words)},
             {word_type(recognized_words[i]) : i \in 1..Len(recognized_words)})

\* ParseResult.missing_required_words: it reads self.best_command.words.
missing_required_words(best_command, recognized_words) ==
    IF best_command = NoCommand
    THEN Returned({})
    ELSE IF "words" \in CommandFields
    THEN Returned(best_command.required
                  \ {recognized_words[i] : i \in 1..Len(recognized_words)})
    ELSE Raised

\* The "Did you mean" suggestions, one per unknown token that has any.
did_you_mean(toks) ==
    LET unknown ==
            SelectSeqBy(toks,
                [i \in 1..Len(toks) |->
                    toks[i].token_type = "unknown" /\ toks[i].suggestions # << >>], 1)
    IN  [i \in 1..Len(unknown) |->
            [kind |-> "did_you_mean", word |-> unknown[i].suggestions[1],
             text |-> unknown[i].text]]

Hint(kind) == [kind |-> kind, word |-> "", text |-> ""]

\* The word-type and attribute hints of _generate_suggestions.
pattern_hints(recognized_words, attribute_values) ==
    LET types == {word_type(recognized_words[i]) : i \in 1..Len(recognized_words)}
        actions == SelectSeqBy(recognized_words,
                       [i \in 1..Len(recognized_words) |->
                           word_type(recognized_words[i]) = "action"], 1)
        entities == SelectSeqBy(recognized_words,
                       [i \in 1..Len(recognized_words) |->
                           word_type(recognized_words[i]) = "entity"], 1)
    IN  (IF "action" \in types /\ "entity" \notin types
         THEN <<Hint("add_entity")>> ELSE << >>)
        \o (IF "entity" \in types /\ "action" \notin types
            THEN <<Hint("add_action")>> ELSE << >>)
        \o (IF /\ actions # << >>
               /\ entities # << >>
               /\ attribute_values = {}
               /\ actions[1] = "create"
               /\ entities[1] = "company"
            THEN <<Hint("add_attributes")>> ELSE << >>)

\* VLMXParser._generate_suggestions
generate_suggestions(toks, recognized_words, attribute_values, best_command) ==
    LET missing == missing_required_words(best_command, recognized_words)
    IN  IF best_command # NoCommand /\ missing.raised
        THEN Raised
        ELSE Returned(
                 did_you_mean(toks)
                 \o (IF best_command # NoCommand /\ missing.value # {}
                     THEN <<Hint("missing_required")>> ELSE << >>)
                 \o pattern_hints(recognized_words, attribute_values))

\* The entries of ParseResult.errors, by kind and the word they name.
CompositionErrorMessage(e) == [kind |-> "composition", err |-> e.err, word |-> e.word]

ParseErrorMessage == [kind |-> "parse_error", err |-> "AttributeError", word |-> ""]

\* except Exception as e: result.errors.append(f"Parse error: {str(e)}")
MutRecordException(errors, raised) == errors

record_exception(errors, raised) ==
    IF raised THEN Append(errors, ParseErrorMessage) ELSE errors

\* VLMXParser.parse, from the recognizer's tokens to the returned result.
parse(cmds, toks) ==
    LET recognized_words == recognized_of(toks)
        attribute_values == extract_attribute_values(toks)
        composition_error ==
            IF recognized_words = << >> THEN NoError
            ELSE get_composition_error(recognized_words)
        matching_commands ==
            IF recognized_words = << >> THEN << >>
            ELSE find_matching_commands(cmds, recognized_words)
        selected == select_best_command(matching_commands, recognized_words)
        best_command == IF selected.raised THEN NoCommand ELSE selected.value
        suggested ==
            generate_suggestions(toks, recognized_words, attribute_values, best_command)
        raised == selected.raised \/ suggested.raised
    IN  [tokens |-> toks,
         recognized_words |-> recognized_words,
         attribute_values |-> attribute_values,
         entity_values |-> extract_entity_values(toks),
         is_valid |-> /\ recognized_words # << >>
                      /\ composition_error = NoError
                      /\ is_valid_command(recognized_words),
         errors |-> record_exception(
                        IF composition_error # NoError
                        THEN <<CompositionErrorMessage(composition_error)>> ELSE << >>,
                        raised),
         suggestions |-> IF raised THEN << >> ELSE suggested.value,
         matching_commands |-> matching_commands,
         best_command |-> best_command]

\* ------------------------------------------- parser/parser.py: VLMXParser
\* The parser package works on dsl/words.py.  ActionWord.handler by word id.
handler_of(id) ==
    CASE id = "create" -> "create_handler"
      [] id = "add"    -> "add_handler"
      [] id = "cd"     -> "navigate_handler"
      [] OTHER         -> None

\* ActionWord.requires_entity: True by default, False for cd.
requires_entity(id) == id # "cd"

\* BaseWord.context, the minimum ContextLevel the word declares: ORG for
\* add, SYS for the other words in use.
word_context(id) == IF id = "add" THEN 1 ELSE 0

\* EntityWord.entity_model by word id.
entity_model_of(id) == IF id = "company" THEN "CompanyEntity" ELSE None

\* The tokens the package parser is exercised with: dsl words typed by their
\* id, an uppercase value, and a lowercase typo for which
\* _get_basic_suggestions proposes create and cd.
PackageTokenAlphabet ==
    {WordToken(id) : id \in DslWordIds}
    \cup {ValueToken("ACME"), UnknownToken("cmpny", <<"create", "cd">>)}

\* ParseResult(input_text=...) of models/parser.py as constructed.
PackageEmptyResult ==
    [tokens |-> << >>, recognized_words |-> << >>,
     attribute_values |-> {}, entity_values |-> {},
     action_handler |-> None, entity_model |-> None,
     is_valid |-> FALSE, errors |-> << >>, suggestions |-> << >>]

\* ParseResult.action_words / entity_words over a list of recognized words.
action_words(recognized_words) ==
    SelectSeqBy(recognized_words,
        [i \in 1..Len(recognized_words) |-> word_type(recognized_words[i]) = "action"], 1)

entity_words(recognized_words) ==
    SelectSeqBy(recognized_words,
        [i \in 1..Len(recognized_words) |-> word_type(recognized_words[i]) = "entity"], 1)

\* VLMXParser._generate_suggestions of the package.
package_generate_suggestions(toks, recognized_words, attribute_values) ==
    LET types == {word_type(recognized_words[i]) : i \in 1..Len(recognized_words)}
        actions == action_words(recognized_words)
        entities == entity_words(recognized_words)
    IN  did_you_mean(toks)
        \o (IF /\ "action" \in types
               /\ "entity" \notin types
               /\ actions # << >>
               /\ requires_entity(actions[1])
            THEN <<Hint("add_entity")>> ELSE << >>)
        \o (IF "entity" \in types /\ "action" \notin types
            THEN <<Hint("add_action")>> ELSE << >>)
        \o (IF actions # << >> /\ entities # << >> /\ attribute_values = {}
            THEN IF actions[1] = "create" /\ entities[1] = "company"
                 THEN <<Hint("add_attributes")>>
                 ELSE IF /\ actions[1] \in {"add", "update"}
                         /\ entities[1] \in {"brand", "metadata", "offering"}
                 THEN <<Hint("add_name_value")>>
                 ELSE << >>
            ELSE << >>)

\* VLMXParser.parse of the package, from the recognizer's tokens on.  It has
\* no composition step: is_valid is set as soon as there is an action word.
package_parse(toks) ==
    LET recognized_words == recognized_of(toks)
        attribute_values == extract_attribute_values(toks)
        actions == action_words(recognized_words)
        entities == entity_words(recognized_words)
    IN  [tokens |-> toks,
         recognized_words |-> recognized_words,
         attribute_values |-> attribute_values,
         entity_values |-> extract_entity_values(toks),
         action_handler |-> IF actions # << >> THEN handler_of(actions[1]) ELSE None,
         entity_model |-> IF entities # << >> THEN entity_model_of(entities[1]) ELSE None,
         is_valid |-> actions # << >>,
         errors |-> << >>,
         suggestions |->
             package_generate_suggestions(toks, recognized_words, attribute_values)]

\* VLMXParser._validate_handler_requirements: the message it appends to
\* result.errors, None when the requirements are met.
MutHandlerRequirementError(res) == None

handler_requirement_error(res) ==
    IF res.action_handler = None
    THEN "No action handler found"
    ELSE IF /\ action_words(res.recognized_words) # << >>
            /\ requires_entity(action_words(res.recognized_words)[1])
            /\ entity_words(res.recognized_words) = << >>
    THEN "Action requires an entity word"
    ELSE None

\* handlers/utils.py get_company_name_from_context
get_company_name_from_context(c) ==
    IF c.level >= 1 /\ TruthyStr(c.org_name) THEN c.org_name ELSE None

\* How execute_parsed_command can end.
\* CommandResult.new_context when no context switch is requested (None).
NoContext == [level |-> -1, org_id |-> None, org_name |-> None, app_id |-> None]

NotExecuted == [kind |-> "not_executed", detail |-> "", new_context |-> NoContext]

RaisedError(type, detail) == [kind |-> type, detail |-> detail, new_context |-> NoContext]

HandlerResult(success, detail) ==
    [kind |-> IF success THEN "success_result" ELSE "error_result",
     detail |-> detail, new_context |-> NoContext]

\* result.set_context_switch(new_context)
set_context_switch(r, c) == [r EXCEPT !.new_context = c]

\* Context(level=1, org_id=1, org_name=name): the organization Context the
\* handlers build.
MutOrgContext(name) == [level |-> 1, org_id |-> None, org_name |-> name, app_id |-> None]

OrgContext(name) == [level |-> 1, org_id |-> "1", org_name |-> name, app_id |-> None]

\* storage company_exists: the company's folder exists.
MutCompanyExists(name, comps) == TRUE

company_exists(name, comps) == name \in comps

\* next(iter(parse_result.entity_values.values())), None when there is none.
\* With one entity id in use the dict has at most one key.
first_entity_value(entity_values) ==
    IF entity_values = {} THEN None ELSE (CHOOSE kv \in entity_values : TRUE)[2]

\* The name create_handler stores when no entity value was typed
\* (f"{entity_type}_{timestamp}").
GeneratedName == "company_20250101_000000"

\* handlers/navigation.py navigate_handler
navigate_handler(entity_value, c, comps) ==
    IF entity_value \in {"~", "root", None}
    THEN set_context_switch(HandlerResult(TRUE, "navigated"), DefaultContext)
    ELSE IF entity_value # ""
    THEN IF ~company_exists(entity_value, comps)
         THEN HandlerResult(FALSE, "does not exist")
         ELSE set_context_switch(HandlerResult(TRUE, "navigated"), OrgContext(entity_value))
    ELSE HandlerResult(TRUE, "current_location")

\* handlers/company.py navigate_handler(parse_result, context): the target
\* is the company name, else the text of the first token that is not cd.
navigation_target(res) ==
    LET named == {kv \in res.entity_values : kv[1] = "company_name" /\ kv[2] # ""}
        others == SelectSeqBy(res.tokens,
                      [i \in 1..Len(res.tokens) |-> res.tokens[i].text # "cd"], 1)
    IN  IF named # {} THEN (CHOOSE kv \in named : TRUE)[2]
        ELSE IF others # << >> THEN others[1].text
        ELSE None

\* Context(level=context.level - 1): every other field at its default.
parent_context(c) ==
    [level |-> c.level - 1, org_id |-> None, org_name |-> None, app_id |-> None]

company_navigate_handler(res, c, comps) ==
    LET target == navigation_target(res)
    IN  IF target = None
        THEN HandlerResult(TRUE, "current location")
        ELSE IF target \in {"root", "~", "/"}
        THEN set_context_switch(HandlerResult(TRUE, "navigated"), DefaultContext)
        ELSE IF target = ".."
        THEN IF c.level > 0
             THEN IF ContextError(parent_context(c)) # "none"
                  THEN HandlerResult(FALSE, "Failed to navigate")
                  ELSE set_context_switch(HandlerResult(TRUE, "navigated"),
                                          parent_context(c))
             ELSE HandlerResult(FALSE, "Already at root level")
        ELSE IF company_exists(target, comps)
        THEN set_context_switch(HandlerResult(TRUE, "navigated"), OrgContext(target))
        ELSE HandlerResult(FALSE, "not found")

\* What the awaited handler returns.  Every handler body is one try/except
\* that turns an exception into an error result; whether storage succeeds is
\* not decided by the arguments.
handler_results(handler, res, c, comps) ==
    CASE handler = "add_handler" ->
             IF get_company_name_from_context(c) = None
             THEN {HandlerResult(FALSE, "Must be in organization context")}
             ELSE IF res.attribute_values = {}
             THEN {HandlerResult(FALSE, "No attributes specified")}
             ELSE {HandlerResult(TRUE, "added"), HandlerResult(FALSE, "Failed to save")}
      [] handler = "create_handler" ->
             LET name == IF first_entity_value(res.entity_values) \in {None, ""}
                         THEN GeneratedName
                         ELSE first_entity_value(res.entity_values)
             IN  {set_context_switch(HandlerResult(TRUE, "created"), OrgContext(name)),
                  HandlerResult(FALSE, "Failed to create")}
      [] OTHER ->
             {navigate_handler(first_entity_value(res.entity_values), c, comps)}

\* The company folders after the handler returned r: create_handler's
\* success stores the company it switches to.
companies_after(r, comps) ==
    IF r.kind = "success_result" /\ r.detail = "created"
    THEN comps \cup {r.new_context.org_name}
    ELSE comps

\* ui/app.py on_input_submitted: the context switch a CommandResult requests
\* is applied only when it succeeded and carries a new context.
MutContextAfter(r, c) ==
    IF r.new_context # NoContext THEN r.new_context ELSE DefaultContext

context_after(r, c) ==
    IF r.kind = "success_result" /\ r.new_context # NoContext
    THEN r.new_context
    ELSE c

\* VLMXParser.execute_parsed_command(parse_result, context): every way it can
\* end, as the outcome, the message it appended to parse_result.errors (None
\* when none) and whether the handler was awaited.
Execution(outcome, appended_error, invoked) ==
    [outcome |-> outcome, appended_error |-> appended_error, invoked |-> invoked]

execute_parsed_command(res, c, comps) ==
    IF ~res.is_valid
    THEN {Execution(RaisedError("ValueError", "Cannot execute invalid parse result"),
                    None, FALSE)}
    ELSE IF res.action_handler = None
    THEN {Execution(RaisedError("ValueError", "No action handler available"),
                    None, FALSE)}
    ELSE IF handler_requirement_error(res) # None
    THEN {Execution(RaisedError("ValueError", "Handler requirements not met"),
                    handler_requirement_error(res), FALSE)}
    ELSE {Execution(r, None, TRUE) :
              r \in handler_results(res.action_handler, res, c, comps)}

\* The company names the storage is exercised with.
CompanyNames == {"ACME"}

\* The Contexts a session can be in when a command is executed: the root,
\* and the organization Context create_handler and navigate_handler build.
SessionContexts ==
    {DefaultContext,
     [level |-> 1, org_id |-> "1", org_name |-> "ACME", app_id |-> None]}

\* The Contexts handlers/company.py navigate_handler can be handed: one per
\* level.
NavContexts ==
    {DefaultContext,
     [level |-> 1, org_id |-> "1", org_name |-> "ACME", app_id |-> None],
     [level |-> 2, org_id |-> "1", org_name |-> "ACME", app_id |-> "plugin"]}

\* The tokens navigation is exercised with.
NavTokenAlphabet ==
    {WordToken("cd"), WordToken("company"), ValueToken("ACME"),
     UnknownToken("..", << >>), UnknownToken("~", << >>)}

\* ------------------------------------------------- composition: behaviour
RECURSIVE SeqsUpTo(_, _)
SeqsUpTo(S, n) ==
    IF n = 0
    THEN {<< >>}
    ELSE LET shorter == SeqsUpTo(S, n - 1)
         IN  shorter \cup {Append(s, x) : s \in shorter, x \in S}

AttributeIds == {id \in WordIds : word_type(id) = "attribute"}

NonAttributeIds == WordIds \ AttributeIds

\* The Context variables before any Context is constructed.
CtxIdle ==
    /\ ctx_args = DefaultContext
    /\ ctx_error = "none"
    /\ context = DefaultContext

\* The composition variables while no sequence is being validated.
CompIdle ==
    /\ words = << >>
    /\ validation = [ok |-> FALSE, err |-> "not_validated", word |-> ""]
    /\ appended = 0
    /\ sort_input = << >>
    /\ sorted_words = << >>

\* No decoration at hand.
NoDecoration == CommandOf("", {}, {})

\* The registry as importing commands.py leaves it, nothing decorated since.
RegIdle ==
    /\ commands = ImportedCommands
    /\ commands_by_action = ImportedIndex
    /\ reg_args = NoDecoration
    /\ reg_error = {}
    /\ registrations = 0

\* No input has been parsed.
ParseIdle ==
    /\ tokens = << >>
    /\ result = EmptyResult
    /\ parse_pc = "ready"

\* Nothing has been executed.
ExecIdle ==
    /\ exec_context = DefaultContext
    /\ handler_invoked = FALSE
    /\ exec_outcome = NotExecuted
    /\ companies = {}
    /\ session_context = DefaultContext
    /\ submitted = 0

\* No recognizer has been built.
RecIdle ==
    /\ word_registry = << >>
    /\ fuzzy_threshold = DefaultFuzzyThreshold
    /\ token_text = ""
    /\ fuzzy_scores = << >>
    /\ recognition = NotRecognized
    /\ WORDS = << >>
    /\ WORD_REGISTRY = Unbuilt

\* validate_words has not been called.
CmdIdle ==
    /\ command = NoCommand
    /\ checked_ids = << >>
    /\ verdict = NoVerdict

\* Nothing has been tokenized.
TokIdle ==
    /\ input_text = << >>
    /\ tokenized = NotTokenized

\* No validation has been requested yet for the chosen sequence.
NotValidated == [ok |-> FALSE, err |-> "not_validated", word |-> ""]

Validated == validation # NotValidated

\* Any word sequence up to the bound may be handed to the validator.
CompInit ==
    /\ words \in SeqsUpTo(WordIds, MaxWords)
    /\ validation = NotValidated
    /\ appended = 0
    /\ sort_input = << >>
    /\ sorted_words = << >>
    /\ CtxIdle
    /\ RegIdle
    /\ ParseIdle
    /\ ExecIdle /\ RecIdle /\ CmdIdle /\ TokIdle

\* A caller validates the word sequence.
ValidateWords ==
    /\ ~Validated
    /\ validation' = validate_command_structure(words)
    /\ UNCHANGED <<words, appended, sort_input, sorted_words>>
    /\ UNCHANGED <<ctxVars, regVars, parseVars, execVars, recVars, cmdVars, tokVars>>

\* A caller validates the sequence again with one more Attribute word.
AppendAttribute ==
    \E a \in AttributeIds :
        /\ Validated
        /\ Len(words) < MaxWords
        /\ words' = Append(words, a)
        /\ validation' = validate_command_structure(words')
        /\ appended' = appended + 1
        /\ UNCHANGED <<sort_input, sorted_words>>
        /\ UNCHANGED <<ctxVars, regVars, parseVars, execVars, recVars, cmdVars, tokVars>>

\* A caller has the current word list sorted.
SortWords ==
    /\ sort_input # words
    /\ sort_input' = words
    /\ sorted_words' = sort_words_by_type(words)
    /\ UNCHANGED <<words, validation, appended>>
    /\ UNCHANGED <<ctxVars, regVars, parseVars, execVars, recVars, cmdVars, tokVars>>

CompNext == ValidateWords \/ AppendAttribute

\* Sorting alone: any word list up to the bound is handed to the sort.
SortNext == SortWords

SortSpec == CompInit /\ [][SortNext]_vars

CompSpec == CompInit /\ [][CompNext]_vars


\* ------------------------------------------------------ Context: behaviour
CtxInit == CompIdle /\ CtxIdle /\ RegIdle /\ ParseIdle /\ ExecIdle /\ RecIdle /\ CmdIdle /\ TokIdle

\* Some code constructs a Context; the instance exists only if validation
\* raised nothing.
ConstructContext ==
    \E c \in ContextArgs :
        /\ ctx_args' = c
        /\ ctx_error' = ContextError(c)
        /\ context' = IF ContextError(c) = "none" THEN c ELSE context
        /\ UNCHANGED <<compVars, regVars, parseVars, execVars, recVars, cmdVars, tokVars>>

CtxNext == ConstructContext

CtxSpec == CtxInit /\ [][CtxNext]_vars

\* ----------------------------------------------------- registry: behaviour
\* The word ids a definition may name: the registry's and one it lacks.
DefinitionWordIds == RegisteredWordIds \cup {"nonexistent_word"}

SubsetsUpTo(S, n) == {x \in SUBSET S : Cardinality(x) <= n}

\* The decorations tried first, one per behaviour.
Definitions ==
    {CommandOf(id, req, opt) :
        id \in {"create_company", "show_company"},
        req \in SubsetsUpTo(DefinitionWordIds, MaxSetSize),
        opt \in SubsetsUpTo(DefinitionWordIds, MaxSetSize)}

\* Further decorations an application applies: commands that tie with or
\* outrank the imported ones, and the two rejected definitions of
\* examples/command_validation_demo.py.
DecorationPool ==
    {CommandOf("remove_company", {"delete", "company"}, {}),
     CommandOf("create_any", {"create"}, {"company", "currency"}),
     CommandOf("company_only", {"company"}, {"create", "delete", "currency"}),
     CommandOf("bad_overlap", {"create", "company"}, {"company"}),
     CommandOf("bad_word", {"create", "nonexistent_word"}, {})}

RegInit ==
    /\ CompIdle /\ CtxIdle /\ ParseIdle /\ ExecIdle /\ RecIdle /\ CmdIdle /\ TokIdle
    /\ commands = ImportedCommands
    /\ commands_by_action = ImportedIndex
    /\ reg_args \in Definitions
    /\ reg_error = {}
    /\ registrations = 0

\* @register_command(...) is applied to a handler: CommandWords is
\* validated, and only if it is built is the Command registered.
RegisterCommand ==
    \E d \in (IF registrations = 0 /\ reg_args # NoDecoration
              THEN {reg_args} ELSE DecorationPool) :
        /\ parse_pc = "ready"
        /\ registrations < MaxRegistrations
        /\ reg_args' = d
        /\ reg_error' = CommandWordsErrors(d.required, d.optional)
        /\ commands' = register_command(commands, d.command_id, d.required, d.optional)
        /\ commands_by_action' =
              index_register_command(commands_by_action, d.command_id,
                                     d.required, d.optional)
        /\ registrations' = registrations + 1
        /\ UNCHANGED <<compVars, ctxVars, parseVars, execVars, recVars, cmdVars, tokVars>>

RegNext == RegisterCommand

RegSpec == RegInit /\ [][RegNext]_vars

\* ------------------------------------------------------- parser.py: behaviour
ParseInit == CompIdle /\ CtxIdle /\ RegIdle /\ ParseIdle /\ ExecIdle /\ RecIdle /\ CmdIdle /\ TokIdle

\* parse(input_text) is called once the commands are registered; the input
\* is any token sequence up to the bound.
Parse ==
    \E toks \in SeqsUpTo(TokenAlphabet, MaxTokens) :
        /\ parse_pc = "ready"
        /\ tokens' = toks
        /\ result' = parse(commands, toks)
        /\ parse_pc' = "returned"
        /\ UNCHANGED <<compVars, ctxVars, regVars, execVars, recVars, cmdVars, tokVars>>

ParseNext == RegisterCommand \/ Parse

\* Value extraction on its own: the input is drawn first, then parsed
\* against the imported registry.
ExtractInit ==
    /\ CompIdle /\ CtxIdle /\ RegIdle /\ ExecIdle /\ RecIdle /\ CmdIdle /\ TokIdle
    /\ tokens \in SeqsUpTo(ExtractAlphabet, MaxExtractTokens)
    /\ result = EmptyResult
    /\ parse_pc = "ready"

ParseInput ==
    /\ parse_pc = "ready"
    /\ result' = parse(commands, tokens)
    /\ parse_pc' = "returned"
    /\ UNCHANGED <<compVars, ctxVars, regVars, tokens, execVars, recVars, cmdVars, tokVars>>

ExtractNext == ParseInput

ExtractSpec == ExtractInit /\ [][ExtractNext]_vars

ParseSpec == ParseInit /\ [][ParseNext]_vars

\* ------------------------------------------------- parser package: behaviour
PackageInit ==
    /\ RecIdle /\ CmdIdle /\ TokIdle
    /\ CompIdle /\ CtxIdle /\ RegIdle
    /\ tokens \in SeqsUpTo(PackageTokenAlphabet, MaxTokens)
    /\ result = PackageEmptyResult
    /\ parse_pc = "ready"
    /\ exec_context \in SessionContexts
    /\ session_context = exec_context
    /\ companies \in SUBSET CompanyNames
    /\ handler_invoked = FALSE
    /\ exec_outcome = NotExecuted
    /\ submitted = 0

PackageParse ==
    /\ parse_pc = "ready"
    /\ result' = package_parse(tokens)
    /\ parse_pc' = "returned"
    /\ UNCHANGED <<compVars, ctxVars, regVars, tokens, execVars, recVars, cmdVars, tokVars>>

HandlerRequirementsMessage(text) ==
    [kind |-> "handler_requirements", err |-> text, word |-> ""]

\* result = await self.parser.execute_parsed_command(parse_result,
\* self.context), with what the caller in ui/app.py does with the result.
ExecuteParsedCommand ==
    /\ parse_pc = "returned"
    /\ parse_pc' = "executed"
    /\ IF ~result.is_valid
       THEN /\ exec_outcome' = RaisedError("ValueError", "Cannot execute invalid parse result")
            /\ UNCHANGED <<result, handler_invoked, companies, session_context>>
       ELSE IF result.action_handler = None
       THEN /\ exec_outcome' = RaisedError("ValueError", "No action handler available")
            /\ UNCHANGED <<result, handler_invoked, companies, session_context>>
       ELSE IF handler_requirement_error(result) # None
       THEN /\ result' = [result EXCEPT !.errors =
                             Append(@, HandlerRequirementsMessage(
                                           handler_requirement_error(result)))]
            /\ exec_outcome' = RaisedError("ValueError", "Handler requirements not met")
            /\ UNCHANGED <<handler_invoked, companies, session_context>>
       ELSE /\ handler_invoked' = TRUE
            /\ exec_outcome' \in handler_results(result.action_handler, result,
                                                 exec_context, companies)
            /\ companies' = companies_after(exec_outcome', companies)
            /\ session_context' = context_after(exec_outcome', exec_context)
            /\ UNCHANGED result
    /\ UNCHANGED <<compVars, ctxVars, regVars, tokens, exec_context, submitted,
                   recVars, cmdVars, tokVars>>

PackageNext == PackageParse \/ ExecuteParsedCommand

PackageSpec == PackageInit /\ [][PackageNext]_vars

\* -------------------------------------- handlers/company.py: behaviour
NavInit ==
    /\ RecIdle /\ CmdIdle /\ TokIdle
    /\ CompIdle /\ CtxIdle /\ RegIdle
    /\ tokens \in SeqsUpTo(NavTokenAlphabet, MaxTokens)
    /\ result = PackageEmptyResult
    /\ parse_pc = "ready"
    /\ exec_context \in NavContexts
    /\ session_context = exec_context
    /\ companies \in SUBSET CompanyNames
    /\ handler_invoked = FALSE
    /\ exec_outcome = NotExecuted
    /\ submitted = 0

\* The command "navigate" (required words {cd}, no optional word) is
\* executed: navigate_handler(parse_result, context) is awaited and the
\* caller applies the context switch it requests.
CompanyNavigate ==
    /\ parse_pc = "returned"
    /\ {result.recognized_words[i] : i \in 1..Len(result.recognized_words)} = {"cd"}
    /\ parse_pc' = "executed"
    /\ handler_invoked' = TRUE
    /\ exec_outcome' = company_navigate_handler(result, exec_context, companies)
    /\ session_context' = context_after(exec_outcome', exec_context)
    /\ UNCHANGED <<compVars, ctxVars, regVars, tokens, result, exec_context,
                   companies, submitted, recVars, cmdVars, tokVars>>

NavNext == PackageParse \/ CompanyNavigate

NavSpec == NavInit /\ [][NavNext]_vars

\* ------------------------------------------------- ui/app.py: behaviour
\* The inputs submitted in a session, as the recognizer's tokens: the empty
\* input, create company ACME, create company, create, cd ACME, cd, cd ~,
\* cd .., add company name ACME, add, an unknown word, and company ACME.
SessionInputs ==
    {<< >>,
     <<WordToken("create"), WordToken("company"), ValueToken("ACME")>>,
     <<WordToken("create"), WordToken("company")>>,
     <<WordToken("create")>>,
     <<WordToken("cd"), ValueToken("ACME")>>,
     <<WordToken("cd")>>,
     <<WordToken("cd"), UnknownToken("~", << >>)>>,
     <<WordToken("cd"), UnknownToken("..", << >>)>>,
     <<WordToken("add"), WordToken("company"), WordToken("name"), ValueToken("ACME")>>,
     <<WordToken("add")>>,
     <<UnknownToken("cmpny", <<"create", "cd">>)>>,
     <<WordToken("company"), ValueToken("ACME")>>}

\* VLMX.__init__: self.context = Context(level=0), nothing stored yet.
SessionInit ==
    /\ RecIdle /\ CmdIdle /\ TokIdle
    /\ CompIdle /\ CtxIdle /\ RegIdle
    /\ tokens = << >>
    /\ result = PackageEmptyResult
    /\ parse_pc = "ready"
    /\ ExecIdle

HandlerError(res, appended_error) ==
    IF appended_error = None
    THEN res
    ELSE [res EXCEPT !.errors = Append(@, HandlerRequirementsMessage(appended_error))]

\* CommandBlock.on_input_submitted, whole: the input is parsed, executed
\* when it parsed to a handler, and the context of the next block is set.
SubmitInput ==
    \E toks \in SessionInputs :
        LET parsed == package_parse(toks)
        IN  /\ submitted < MaxCommands
            /\ submitted' = submitted + 1
            /\ tokens' = toks
            /\ exec_context' = session_context
            /\ IF toks = << >>
               THEN /\ result' = PackageEmptyResult
                    /\ exec_outcome' = NotExecuted
                    /\ handler_invoked' = FALSE
                    /\ UNCHANGED <<session_context, companies>>
               ELSE IF parsed.errors # << >> \/ parsed.action_handler = None
               THEN /\ result' = parsed
                    /\ exec_outcome' = NotExecuted
                    /\ handler_invoked' = FALSE
                    /\ UNCHANGED <<session_context, companies>>
               ELSE \E e \in execute_parsed_command(parsed, session_context, companies) :
                    /\ result' = HandlerError(parsed, e.appended_error)
                    /\ exec_outcome' = e.outcome
                    /\ handler_invoked' = e.invoked
                    /\ companies' = companies_after(e.outcome, companies)
                    /\ session_context' = context_after(e.outcome, session_context)
            /\ parse_pc' = "ready"
            /\ UNCHANGED <<compVars, ctxVars, regVars, recVars, cmdVars, tokVars>>

SessionNext == SubmitInput

SessionSpec == SessionInit /\ [][SessionNext]_vars

\* -------------------------------------------------- recognizer: behaviour
\* Registries: some words of the pool in any order, each at most once.
Registries ==
    {r \in SeqsUpTo(WordPool, MaxRegistryWords) :
        /\ r # << >>
        /\ \A i, j \in 1..Len(r) : i # j => r[i].id # r[j].id}

\* A recognizer built on some registry with some threshold, and a token text.
RecInit ==
    /\ CompIdle /\ CtxIdle /\ RegIdle /\ ParseIdle /\ ExecIdle /\ CmdIdle /\ TokIdle
    /\ word_registry \in Registries
    /\ fuzzy_threshold \in FuzzyThresholds
    /\ token_text \in TokenTexts
    /\ fuzzy_scores = << >>
    /\ recognition = NotRecognized
    /\ WORDS = << >>
    /\ WORD_REGISTRY = Unbuilt

\* recognize_word(token_text); the scorer is consulted only on an exact miss.
RecognizeWord ==
    /\ recognition = NotRecognized
    /\ fuzzy_scores = << >>
    /\ \E scores \in
            IF exact_miss(word_registry, token_text)
            THEN [{word_registry[i].id : i \in 1..Len(word_registry)} -> ScoreValues]
            ELSE {<< >>} :
          /\ fuzzy_scores' = scores
          /\ recognition' =
                recognize_word(word_registry, fuzzy_threshold, token_text, scores)
    /\ UNCHANGED <<compVars, ctxVars, regVars, parseVars, execVars, cmdVars, tokVars>>
    /\ UNCHANGED <<word_registry, fuzzy_threshold, token_text, WORDS, WORD_REGISTRY>>

RecNext == RecognizeWord

RecSpec == RecInit /\ [][RecNext]_vars

\* ------------------------------------------------ word registry: behaviour
\* A word module declares some word list; importing it builds the registry.
BuildInit ==
    /\ CompIdle /\ CtxIdle /\ RegIdle /\ ParseIdle /\ ExecIdle /\ CmdIdle /\ TokIdle
    /\ word_registry = << >>
    /\ fuzzy_threshold = DefaultFuzzyThreshold
    /\ token_text = ""
    /\ fuzzy_scores = << >>
    /\ recognition = NotRecognized
    /\ WORDS \in SeqsUpTo(WordDeclarations, MaxWordList)
    /\ WORD_REGISTRY = Unbuilt

BuildRegistry ==
    /\ WORD_REGISTRY = Unbuilt
    /\ WORD_REGISTRY' = dict_comprehension(WORDS)
    /\ UNCHANGED <<compVars, ctxVars, regVars, parseVars, execVars, cmdVars, tokVars>>
    /\ UNCHANGED <<word_registry, fuzzy_threshold, token_text, fuzzy_scores,
                   recognition, WORDS>>

BuildNext == BuildRegistry

BuildSpec == BuildInit /\ [][BuildNext]_vars

\* ---------------------------------------------- validate_words: behaviour
\* The Command objects that can be constructed: the imported ones and the
\* decorations whose CommandWords validates.
ConstructibleCommands ==
    {c \in {ImportedCommands[i] : i \in 1..Len(ImportedCommands)} \cup DecorationPool :
        CommandWordsErrors(c.required, c.optional) = {}}

CmdInit ==
    /\ CompIdle /\ CtxIdle /\ RegIdle /\ ParseIdle /\ ExecIdle /\ RecIdle /\ TokIdle
    /\ command \in ConstructibleCommands
    /\ checked_ids \in SeqsUpTo(DefinitionWordIds, MaxWordIds)
    /\ verdict = NoVerdict

ValidateWordIds ==
    /\ verdict = NoVerdict
    /\ verdict' = validate_words(command, checked_ids)
    /\ UNCHANGED <<compVars, ctxVars, regVars, parseVars, execVars, recVars, tokVars>>
    /\ UNCHANGED <<command, checked_ids>>

CmdNext == ValidateWordIds

CmdSpec == CmdInit /\ [][CmdNext]_vars

\* --------------------------------------------------- tokenizer: behaviour
\* Raw tokens: c, k=v, k=, =v, --k=, k>=, k=' and =.
RawTokens ==
    {<<"c">>, <<"k", "=", "v">>, <<"k", "=">>, <<"=", "v">>,
     <<"-", "-", "k", "=">>, <<"k", ">", "=">>, <<"k", "=", "'">>, <<"=">>}

TokInit ==
    /\ CompIdle /\ CtxIdle /\ RegIdle /\ ParseIdle /\ ExecIdle /\ RecIdle /\ CmdIdle
    /\ input_text \in SeqsUpTo(RawTokens, MaxRawTokens)
    /\ tokenized = NotTokenized

Tokenize ==
    /\ tokenized = NotTokenized
    /\ tokenized' = tokenize(input_text)
    /\ UNCHANGED <<compVars, ctxVars, regVars, parseVars, execVars, recVars, cmdVars>>
    /\ UNCHANGED input_text

TokNext == Tokenize

TokSpec == TokInit /\ [][TokNext]_vars

\* ------------------------------------------------------------ claims C1, C3
\* Precedence of the non-Attribute word types as the grammar states it.
Precedence(t) ==
    CASE t = "action" -> 1 [] t = "modifier" -> 2 [] t = "entity" -> 3 [] OTHER -> 0

IsAttribute(ws, i) == word_type(ws[i]) = "attribute"

\* (a) non-empty, (b) non-Attribute precedences never decrease left to right,
\* (c) an Attribute before the first non-Attribute only in an all-Attribute
\* sequence.
GrammarAccepts(ws) ==
    /\ Len(ws) > 0
    /\ \A i, j \in 1..Len(ws) :
          (i < j /\ ~IsAttribute(ws, i) /\ ~IsAttribute(ws, j))
              => Precedence(word_type(ws[i])) <= Precedence(word_type(ws[j]))
    /\ \A i \in 1..Len(ws) :
          (IsAttribute(ws, i) /\ \A k \in 1..(i - 1) : IsAttribute(ws, k))
              => \A k \in 1..Len(ws) : IsAttribute(ws, k)

\* C1: composition validation returns valid exactly when the sequence is
\* non-empty, the precedences of its non-Attribute words (Action=1,
\* Modifier=2, Entity=3) never decrease from left to right, and an Attribute
\* word precedes the first non-Attribute word only if every word is an
\* Attribute.
C1_ValidIffGrammar ==
    Validated => (validation.ok = GrammarAccepts(words))

C1_Witness ==
    /\ words = <<"create", "holding", "company", "currency">>
    /\ Validated
    /\ validation.ok
    /\ appended = 0

\* The longest prefix of ws made of non-Attribute words only.
RECURSIVE NonAttributePrefixLen(_, _)
NonAttributePrefixLen(ws, i) ==
    IF i > Len(ws) \/ IsAttribute(ws, i)
    THEN i - 1
    ELSE NonAttributePrefixLen(ws, i + 1)

\* C3: if a sequence of non-Attribute words passes composition validation,
\* every sequence obtained by appending Attribute words after it, in any
\* number and order, passes composition validation too.
C3_AttributesAfterValidPrefix ==
    LET k == NonAttributePrefixLen(words, 1)
        prefix == SubSeq(words, 1, k)
    IN  ( /\ Validated
          /\ is_valid_command(prefix)
          /\ \A i \in (k + 1)..Len(words) : IsAttribute(words, i) )
            => validation.ok

C3_Witness ==
    /\ words = <<"create", "company", "currency", "entity">>
    /\ appended = 2
    /\ validation.ok

\* -------------------------------------------------------- claims C2, C4 .. C7
\* The composition error messages among the errors of a result.
CompositionErrors(errors) ==
    {i \in 1..Len(errors) : errors[i].kind = "composition"}

\* C2: when the recognized words of an input violate the ordering grammar,
\* parse returns is_valid = false and errors holds exactly one composition
\* error message, which names one of the input's words; the tokens, the
\* extracted values and the suggestions are populated in the same result.
C2_GrammarViolationReported ==
    ( /\ parse_pc = "returned"
      /\ result.recognized_words # << >>
      /\ ~GrammarAccepts(result.recognized_words) )
        => /\ result.is_valid = FALSE
           /\ Cardinality(CompositionErrors(result.errors)) = 1
           /\ \A i \in CompositionErrors(result.errors) :
                 \E k \in 1..Len(result.recognized_words) :
                     result.errors[i].word = result.recognized_words[k]
           /\ result.tokens = tokens

\* C4: a registered command is among the commands returned as matching the
\* recognized word ids exactly when every recognized id is in its required or
\* optional set and the recognized words, in input order, pass composition
\* validation.
C4_MatchIffSubsetAndValid ==
    ( /\ parse_pc = "returned"
      /\ result.recognized_words # << >> )
        => \A i \in 1..Len(commands) :
               (\E j \in 1..Len(result.matching_commands) :
                    result.matching_commands[j] = commands[i])
               <=> ( /\ \A k \in 1..Len(result.recognized_words) :
                           result.recognized_words[k]
                               \in (commands[i].required \cup commands[i].optional)
                     /\ validate_command_structure(result.recognized_words).ok )

C4_Witness ==
    /\ parse_pc = "returned"
    /\ result.recognized_words = <<"create", "company", "currency">>
    /\ Len(commands) = 3
    /\ result.matching_commands = <<commands[1]>>
    /\ commands[1].command_id = "create_company"

\* The three ranking keys of a command for the recognized words.
RankKey(cmd, recognized_words) ==
    LET ids == {recognized_words[k] : k \in 1..Len(recognized_words)}
    IN  <<Cardinality(cmd.required \cap ids),
          0 - Cardinality(cmd.required),
          Cardinality({word_type(w) : w \in cmd.required \cup cmd.optional}
                      \cap {word_type(w) : w \in ids})>>

\* C5: when several commands match, the best command is the matching command
\* with the most required words present in the input, then the fewest
\* required words, then the most word types shared with the input, and among
\* equals the one registered earliest.
C5_BestCommandIsTopRanked ==
    ( /\ parse_pc = "returned"
      /\ Len(result.matching_commands) >= 2 )
        => \E i \in 1..Len(result.matching_commands) :
               /\ result.best_command = result.matching_commands[i]
               /\ \A j \in 1..Len(result.matching_commands) :
                      ~TupleGreater(RankKey(result.matching_commands[j], result.recognized_words),
                                    RankKey(result.matching_commands[i], result.recognized_words))
               /\ \A j \in 1..(i - 1) :
                      TupleGreater(RankKey(result.matching_commands[i], result.recognized_words),
                                   RankKey(result.matching_commands[j], result.recognized_words))

\* C6: a command definition that names a word id absent from the word
\* registry in its required or optional set, or whose two sets share a word
\* id, is rejected with an error when it is defined and registers nothing; so
\* every registered command has disjoint required and optional sets made of
\* resolvable word ids only.
C6_BadDefinitionRejected ==
    /\ ( /\ registrations > 0
         /\ \/ ~((reg_args.required \cup reg_args.optional) \subseteq RegisteredWordIds)
            \/ reg_args.required \cap reg_args.optional # {} )
          => /\ reg_error # {}
             /\ \A i \in 1..Len(commands) : commands[i] # reg_args
    /\ \A i \in 1..Len(commands) :
          /\ commands[i].required \cap commands[i].optional = {}
          /\ (commands[i].required \cup commands[i].optional) \subseteq RegisteredWordIds

C6_Witness ==
    /\ registrations = 1
    /\ reg_args = CommandOf("show_company", {"create", "company"}, {"company"})
    /\ reg_error = {"overlap"}
    /\ commands = ImportedCommands

\* C7: a command whose minimum level is above the level of the current
\* context is never executed: execution ends with a failure result, without
\* the handler having been run and without an exception.
C7_LevelGateDeniesExecution ==
    ( /\ parse_pc = "executed"
      /\ action_words(result.recognized_words) # << >>
      /\ word_context(action_words(result.recognized_words)[1]) > exec_context.level )
        => /\ ~handler_invoked
           /\ exec_outcome.kind = "error_result"

\* -------------------------------------------------------- claims C8 .. C10
\* C8: no Context instance exists with level 1 and app_id set: constructing
\* a Context with level = 1, org_id and org_name set and a non-None app_id
\* fails validation.
C8_NoLevel1ContextWithApp ==
    /\ ~(context.level = 1 /\ context.app_id # None)
    /\ ( /\ ctx_args.level = 1
         /\ ctx_args.org_id # None
         /\ ctx_args.org_name # None
         /\ ctx_args.app_id # None ) => ctx_error # "none"

\* C9: every Context instance with level 0 has org_id, org_name and app_id
\* all None: constructing a level-0 Context in which any of the three is
\* given a value fails validation.
C9_Level0ContextAllUnset ==
    /\ context.level = 0 =>
          (context.org_id = None /\ context.org_name = None /\ context.app_id = None)
    /\ ( /\ ctx_args.level = 0
         /\ (ctx_args.org_id # None \/ ctx_args.org_name # None \/ ctx_args.app_id # None) )
          => ctx_error # "none"

\* C10: constructing a Context at level 1 or 2 whose org_id or org_name is
\* unset, or at level 2 whose app_id is unset, fails with a level-consistency
\* validation error.
C10_MissingFieldsRejected ==
    ( \/ (ctx_args.level \in {1, 2} /\ (ctx_args.org_id = None \/ ctx_args.org_name = None))
      \/ (ctx_args.level = 2 /\ ctx_args.app_id = None) )
        => (ctx_error = "level_consistency" /\ context # ctx_args)

C10_Witness ==
    /\ ctx_args = [level |-> 1, org_id |-> "1", org_name |-> None, app_id |-> None]
    /\ ctx_error = "level_consistency"

\* ------------------------------------------------------- claims C11 .. C20
\* The results with which a navigation to an absent organization may end: a
\* failure that requests no context switch.
IsPlainFailure(r) == r.kind = "error_result" /\ r.new_context = NoContext

\* C11: navigating to an organization the existence check reports absent
\* returns a failure result, not an exception, that carries no new context, so
\* the session context stays the one in force before the command.  Stated
\* for the handler execution awaits and for the handler of handlers/company.py
\* on the same parse result.
C11_AbsentOrganizationFailure ==
    ( /\ parse_pc = "executed"
      /\ handler_invoked
      /\ result.action_handler = "navigate_handler" )
        => /\ ( /\ first_entity_value(result.entity_values) \notin {None, "", "~", "root"}
                /\ first_entity_value(result.entity_values) \notin companies )
                  => /\ IsPlainFailure(exec_outcome)
                     /\ session_context = exec_context
           /\ ( /\ navigation_target(result) \notin {None, "root", "~", "/", ".."}
                /\ navigation_target(result) \notin companies )
                  => /\ IsPlainFailure(company_navigate_handler(result, exec_context, companies))
                     /\ context_after(company_navigate_handler(result, exec_context, companies),
                                      exec_context) = exec_context

C11_Witness ==
    /\ parse_pc = "executed"
    /\ tokens = <<WordToken("cd"), ValueToken("ACME")>>
    /\ companies = {}
    /\ exec_context = OrgContext("ACME")
    /\ handler_invoked
    /\ exec_outcome = HandlerResult(FALSE, "does not exist")
    /\ session_context = exec_context

\* An exception is raised inside the try block of parse for these tokens:
\* while the best command is selected or while the suggestions are built.
InternalFault(cmds, toks) ==
    LET recognized_words == recognized_of(toks)
        matching_commands ==
            IF recognized_words = << >> THEN << >>
            ELSE find_matching_commands(cmds, recognized_words)
        selected == select_best_command(matching_commands, recognized_words)
    IN  \/ selected.raised
        \/ generate_suggestions(toks, recognized_words,
                                extract_attribute_values(toks), selected.value).raised

\* C12: parse returns a ParseResult for every input and never raises: an
\* exception raised inside it is caught and recorded as an entry of errors,
\* and the fields assigned before the exception are kept.
C12_ParseNeverRaises ==
    parse_pc # "ready" =>
        /\ parse_pc = "returned"
        /\ result.tokens = tokens
        /\ InternalFault(commands, tokens)
              <=> (\E i \in 1..Len(result.errors) : result.errors[i].kind = "parse_error")

C12_Witness ==
    /\ parse_pc = "returned"
    /\ tokens = <<WordToken("create"), WordToken("company")>>
    /\ result.best_command.command_id = "create_company"
    /\ result.errors = <<ParseErrorMessage>>

\* The orderings of a word list.
Orderings(ws) ==
    {[i \in 1..Len(ws) |-> ws[f[i]]] : f \in Permutations(1..Len(ws))}

\* The words of each type come in the same relative order in both lists.
SameOrderWithinTypes(a, b) ==
    \A t \in {"action", "modifier", "entity", "attribute"} :
        SelectSeqBy(a, [i \in 1..Len(a) |-> word_type(a[i]) = t], 1)
            = SelectSeqBy(b, [i \in 1..Len(b) |-> word_type(b[i]) = t], 1)

TypesOf(ws) == [i \in 1..Len(ws) |-> word_type(ws[i])]

\* C13 as stated: every ordering of the same words is sorted to the same
\* output sequence.
C13_AnyOrderingSameOutput ==
    \A p \in Orderings(sort_input) : sort_words_by_type(p) = sorted_words

\* C13 amended: every ordering of the same words is sorted to a sequence with
\* the same word types position by position, and to the same sequence
\* whenever the orderings list the words of each type in the same relative
\* order.
C13_SameOutputUpToOrderWithinTypes ==
    \A p \in Orderings(sort_input) :
        /\ TypesOf(sort_words_by_type(p)) = TypesOf(sorted_words)
        /\ SameOrderWithinTypes(p, sort_input) => sort_words_by_type(p) = sorted_words

C13_Witness ==
    /\ sort_input = <<"currency", "company", "holding", "create">>
    /\ sorted_words = <<"create", "holding", "company", "currency">>

\* C14: the sorted list is the Action words, then the Modifier words, then
\* the Entity words, then the Attribute words of the input, each group in the
\* relative order it had in the input.
C14_GroupedByTypeStable ==
    /\ Len(sorted_words) = Len(sort_input)
    /\ \A i, j \in 1..Len(sorted_words) :
          i < j => get_order(word_type(sorted_words[i])) <= get_order(word_type(sorted_words[j]))
    /\ SameOrderWithinTypes(sorted_words, sort_input)

C14_Witness ==
    /\ sort_input = <<"entity", "company", "currency", "create">>
    /\ sorted_words = <<"create", "company", "entity", "currency">>

\* The preconditions of execution the claim lists, read off a parse result.
ExecutionPreconditions(res) ==
    /\ res.is_valid
    /\ res.action_handler # None
    /\ \A i \in 1..Len(res.recognized_words) :
          ( /\ word_type(res.recognized_words[i]) = "action"
            /\ \A k \in 1..(i - 1) : word_type(res.recognized_words[k]) # "action"
            /\ requires_entity(res.recognized_words[i]) )
              => \E j \in 1..Len(res.recognized_words) :
                     word_type(res.recognized_words[j]) = "entity"

\* C15: executing a parse result invokes the action handler only if the
\* result is valid, has a handler and, when its action requires an entity,
\* holds an entity word; in every other case execution raises at the
\* execution boundary and no handler is invoked.
C15_HandlerOnlyWhenPreconditionsHold ==
    parse_pc = "executed" =>
        /\ handler_invoked <=> ExecutionPreconditions(result)
        /\ ~ExecutionPreconditions(result) => exec_outcome.kind = "ValueError"
        /\ ExecutionPreconditions(result) => exec_outcome.kind \in {"success_result", "error_result"}

C15_Witness ==
    /\ parse_pc = "executed"
    /\ tokens = <<WordToken("add"), WordToken("name"), ValueToken("ACME")>>
    /\ result.is_valid
    /\ ~handler_invoked
    /\ exec_outcome = RaisedError("ValueError", "Handler requirements not met")

\* Token i is an Entity word immediately followed by a Value token.
EntityPairAt(toks, i) ==
    /\ i < Len(toks)
    /\ toks[i].token_type = "word"
    /\ word_type(toks[i].word) = "entity"
    /\ toks[i + 1].token_type = "value"

\* C16 as stated: every Entity word immediately followed by a Value token
\* has "<entity id>_name" mapped to that Value token's text, and "create
\* company ACME" yields {"company_name": "ACME"} and is_valid = true.
C16_EveryEntityPairMapped ==
    parse_pc = "returned" =>
        /\ \A i \in 1..Len(tokens) :
              EntityPairAt(tokens, i)
                  => <<tokens[i].word \o "_name", tokens[i + 1].text>> \in result.entity_values
        /\ tokens = <<WordToken("create"), WordToken("company"), ValueToken("ACME")>>
              => (result.entity_values = {<<"company_name", "ACME">>} /\ result.is_valid)

\* C16 amended: the entry of "<entity id>_name" is the text of the Value
\* token of the last such pair for that entity id.
C16_LastEntityPairMapped ==
    parse_pc = "returned" =>
        /\ \A i \in 1..Len(tokens) :
              ( /\ EntityPairAt(tokens, i)
                /\ \A j \in (i + 1)..Len(tokens) :
                      ~(EntityPairAt(tokens, j) /\ tokens[j].word = tokens[i].word) )
                  => /\ <<tokens[i].word \o "_name", tokens[i + 1].text>> \in result.entity_values
                     /\ \A kv \in result.entity_values :
                           kv[1] = tokens[i].word \o "_name" => kv[2] = tokens[i + 1].text
        /\ tokens = <<WordToken("create"), WordToken("company"), ValueToken("ACME")>>
              => (result.entity_values = {<<"company_name", "ACME">>} /\ result.is_valid)

C16_Witness ==
    /\ parse_pc = "returned"
    /\ tokens = <<WordToken("company"), ValueToken("ACME"),
                  WordToken("company"), ValueToken("BETA")>>
    /\ result.entity_values = {<<"company_name", "BETA">>}

\* The fallback of extract_entity_values supplied the entity value: no
\* entity word / value pair filled the dict, yet the dict is not empty.
FallbackSelected ==
    /\ \A i \in 1..Len(tokens) : ~EntityPairAt(tokens, i)
    /\ result.entity_values # {}

EntityWordPresent ==
    \E i \in 1..Len(tokens) :
        tokens[i].token_type = "word" /\ word_type(tokens[i].word) = "entity"

\* Positions of the Value tokens that look like an entity name.
EntityLikeValues ==
    {i \in 1..Len(tokens) :
        tokens[i].token_type = "value" /\ looks_like_entity_name(tokens[i].text)}

\* C17: a fallback entity value is selected if and only if no Entity word is
\* among the tokens and some Value token looks like an entity name, and it
\* is then the first such Value token in input order.
C17_FallbackIffNoEntityWord ==
    parse_pc = "returned" =>
        /\ FallbackSelected <=> (~EntityWordPresent /\ EntityLikeValues # {})
        /\ FallbackSelected =>
              \E i \in EntityLikeValues :
                  /\ \A j \in EntityLikeValues : i <= j
                  /\ result.entity_values = {<<"company_name", tokens[i].text>>}

\* Token i is an Attribute word or an Unknown token, immediately followed by
\* a Value token.
AttributePairAt(toks, i) ==
    /\ i < Len(toks)
    /\ \/ toks[i].token_type = "word" /\ word_type(toks[i].word) = "attribute"
       \/ toks[i].token_type = "unknown"
    /\ toks[i + 1].token_type = "value"

\* C18 as stated: attribute_values holds key_text -> value_text exactly for
\* the adjacent pairs of an Attribute word or Unknown token and a Value
\* token, keyed by the first token's text as typed.
C18_EntryForEveryAttributePair ==
    parse_pc = "returned" =>
        result.attribute_values =
            {<<tokens[i].text, tokens[i + 1].text>> :
                i \in {k \in 1..Len(tokens) : AttributePairAt(tokens, k)}}

\* C18 amended: for each key text, attribute_values holds the value of the
\* last such pair with that key text, and nothing else.
C18_EntryForLastAttributePair ==
    parse_pc = "returned" =>
        result.attribute_values =
            {<<tokens[i].text, tokens[i + 1].text>> :
                i \in {k \in 1..Len(tokens) :
                         /\ AttributePairAt(tokens, k)
                         /\ \A j \in (k + 1)..Len(tokens) :
                               ~(AttributePairAt(tokens, j) /\ tokens[j].text = tokens[k].text)}}

C18_Witness ==
    /\ parse_pc = "returned"
    /\ tokens = <<AliasToken("curr", "currency"), ValueToken("EUR"),
                  UnknownToken("foo", << >>), ValueToken("ACME")>>
    /\ result.attribute_values = {<<"curr", "EUR">>, <<"foo", "ACME">>}

\* The registered words the token's lowercase text matches by id or alias,
\* as positions in the registry.
ExactMatches ==
    {i \in 1..Len(word_registry) : Lower(token_text) \in KeysOf(word_registry[i])}

\* recognize_word has returned for the token at hand.
Recognized ==
    recognition # NotRecognized \/ fuzzy_scores # << >>

\* C19: a token whose lowercase text matches more than one registered word
\* by id or alias resolves to the earliest-registered of those words.
C19_EarliestRegisteredWins ==
    (Recognized /\ Cardinality(ExactMatches) > 1) =>
        \E i \in ExactMatches :
            /\ \A j \in ExactMatches : i <= j
            /\ recognition.word = word_registry[i].id

\* C20: a token with no exact id or alias match resolves to a word only if
\* the best fuzzy score reaches the threshold, and then to a best-scoring
\* word id; every suggestion returned with an accepted match scores at
\* least 70% of the threshold.
C20_FuzzyAcceptedOnlyAboveThreshold ==
    (fuzzy_scores # << >> /\ recognition.word # None) =>
        /\ \A id \in DOMAIN fuzzy_scores :
              fuzzy_scores[id] <= fuzzy_scores[recognition.word]
        /\ fuzzy_scores[recognition.word] >= fuzzy_threshold
        /\ \A k \in 1..Len(recognition.suggestions) :
              fuzzy_scores[recognition.suggestions[k]] * 10 >= fuzzy_threshold * 7

C20_Witness ==
    /\ fuzzy_scores # << >>
    /\ fuzzy_threshold = DefaultFuzzyThreshold
    /\ recognition.word # None
    /\ recognition.suggestions # << >>
    /\ \E k \in 1..Len(recognition.suggestions) :
          fuzzy_scores[recognition.suggestions[k]] < fuzzy_threshold

\* ------------------------------------------------------- claims C21 .. C30
\* Two words of the declared list carry the same id.
DuplicateIds ==
    \E i, j \in 1..Len(WORDS) : i # j /\ WORDS[i].id = WORDS[j].id

\* C21: building the registry from a word list in which two words have the
\* same id fails with a registration error instead of yielding a queryable
\* registry.
C21_DuplicateIdFailsRegistration ==
    (WORD_REGISTRY # Unbuilt /\ DuplicateIds) =>
        /\ WORD_REGISTRY.raised
        /\ ~WORD_REGISTRY.built

\* C22: every registered command has a non-empty set of required words; a
\* command defined with no required words cannot be registered.
C22_RequiredWordsNonEmpty ==
    \A i \in 1..Len(commands) : commands[i].required # {}

\* The elements of a sequence.
Range(seq) == {seq[i] : i \in 1..Len(seq)}

\* C30: after any sequence of registrations, get_commands_by_action(a) holds
\* exactly the commands currently stored in the registry whose word set
\* contains action word a, each listed once.
C30_ActionIndexMatchesRegistry ==
    \A a \in ActionWordIds :
        LET listed == get_commands_by_action(commands_by_action, a)
        IN  /\ Range(listed) = {c \in Range(commands) : a \in get_all_words(c)}
            /\ \A i, j \in 1..Len(listed) : i # j => listed[i] # listed[j]

CreateCompany == CommandOf("create_company", {"create", "company"}, {"entity", "currency"})

\* C23: for the command with required {create, company} and optional
\* {entity, currency}, [create, company, entity] validates to (true, "") and
\* [create] to (false, "Missing required words: company"); in general a word
\* list lacking a required word is rejected with a message listing the
\* missing required ids.
C23_MissingRequiredWordsListed ==
    verdict # NoVerdict =>
        /\ (command = CreateCompany /\ checked_ids = <<"create", "company", "entity">>)
              => verdict = Verdict(TRUE, "", {}, NoError)
        /\ (command = CreateCompany /\ checked_ids = <<"create">>)
              => verdict = Verdict(FALSE, "Missing required words: ", {"company"}, NoError)
        /\ \A id \in command.required :
              (\A i \in 1..Len(checked_ids) : checked_ids[i] # id)
                  => /\ ~verdict.ok
                     /\ verdict.message = "Missing required words: "
                     /\ verdict.listed =
                            {r \in command.required :
                                \A i \in 1..Len(checked_ids) : checked_ids[i] # r}

C23_Witness ==
    /\ command = CreateCompany
    /\ checked_ids = <<"create">>
    /\ verdict = Verdict(FALSE, "Missing required words: ", {"company"}, NoError)

\* Where raw token i starts in the input text (single blanks between tokens).
RECURSIVE StartOf(_)
StartOf(i) == IF i = 1 THEN 0 ELSE StartOf(i - 1) + Len(input_text[i - 1]) + 1

OperatorChars == {"=", ">", "<", "!"}

\* A string without operator, quote or dash characters.
IsPlain(str) ==
    /\ str # << >>
    /\ \A k \in 1..Len(str) : str[k] \notin OperatorChars \cup QuoteChars \cup {"-"}

\* The non-empty part of raw token i when its operator dangles: the raw
\* token (less a leading "--") is part + operator or operator + part.
DanglingPart(i) ==
    LET clean == clean_token(input_text[i])
    IN  {part \in {SubSeq(clean, a, b) : a, b \in 1..Len(clean)} :
            /\ IsPlain(part)
            /\ \E op \in ContainsOperators : clean = part \o op \/ clean = op \o part}

\* Some token of the result spells str and lies within raw token i.
YieldsToken(i, str) ==
    \E k \in 1..Len(tokenized.tokens) :
        /\ tokenized.tokens[k].text = str
        /\ tokenized.tokens[k].position >= StartOf(i)
        /\ tokenized.tokens[k].position < StartOf(i) + Len(input_text[i])

\* C25: a raw token with a dangling operator never aborts tokenizing: it
\* yields a plain token for its non-empty part, and the raw tokens that
\* follow are tokenized as well.
C25_DanglingOperatorDegrades ==
    tokenized # NotTokenized =>
        \A i \in 1..Len(input_text) :
            \A part \in DanglingPart(i) :
                /\ tokenized.returned
                /\ YieldsToken(i, part)
                /\ \A j \in (i + 1)..Len(input_text) :
                      /\ IsPlain(input_text[j]) => YieldsToken(j, input_text[j])
                      /\ \A later \in DanglingPart(j) : YieldsToken(j, later)

C25_Witness ==
    /\ tokenized.returned
    /\ input_text = <<Str2("k", "="), Str2("=", "v"), Str1("c")>>
    /\ tokenized.tokens = <<ParsedToken(Str1("k"), 0, "unknown"),
                            ParsedToken(Str1("v"), 4, "value"),
                            ParsedToken(Str1("c"), 6, "unknown")>>

\* C24: after parse returns a ParseResult, no later operation on it,
\* including handing it to command execution, changes any of its fields.
C24_ResultNeverMutatedAfterReturn ==
    [][parse_pc = "returned" => result' = result]_vars

\* The command "cd .." has been executed by handlers/company.py.
CdParentExecuted ==
    /\ parse_pc = "executed"
    /\ handler_invoked
    /\ navigation_target(result) = ".."

LevelConsistent(c) ==
    \/ c.level = 0 /\ c.org_id = None /\ c.org_name = None /\ c.app_id = None
    \/ c.level = 1 /\ c.org_id # None /\ c.org_name # None /\ c.app_id = None
    \/ c.level = 2 /\ c.org_id # None /\ c.org_name # None /\ c.app_id # None

\* C27: starting from the initial level-0 context, the session context after
\* any sequence of submitted commands satisfies the level-consistency
\* invariants.
C27_SessionContextLevelConsistent ==
    LevelConsistent(session_context)

C27_Witness ==
    /\ submitted >= 2
    /\ exec_context.level = 0
    /\ session_context = OrgContext("ACME")
    /\ tokens = <<WordToken("cd"), ValueToken("ACME")>>

\* C28: the context given to the next command block equals the current one
\* unless the executed command returned a success result that carries a new
\* context; every other way a submission ends leaves it unchanged.
C28_ContextChangesOnlyOnSuccessfulSwitch ==
    [][session_context' # session_context
          => /\ exec_outcome'.kind = "success_result"
             /\ exec_outcome'.new_context # NoContext
             /\ session_context' = exec_outcome'.new_context]_vars

C28_Witness ==
    /\ submitted > 0
    /\ exec_outcome.kind \in {"error_result", "ValueError"}
    /\ exec_context.level = 1
    /\ session_context = exec_context

\* C29: for every valid word sequence w and every word type t returned by
\* next_valid_types(w), w followed by one word of type t also passes
\* composition validation.
C29_NextTypesKeepSequenceValid ==
    (Validated /\ validation.ok) =>
        LET next_types == get_expected_next_word_types(words)
        IN  \A k \in 1..Len(next_types) :
                \A id \in {w \in WordIds : word_type(w) = next_types[k]} :
                    validate_command_structure(Append(words, id)).ok

====
